---- MODULE Spec2Model ----
(***************************************************************************)
(* Model of sphere_transforms.py: Moebius transformations of               *)
(* equirectangular images.  The program is a library of pure functions;    *)
(* the state machine calls one function per step and records the call and  *)
(* what it returned.  Real and complex numbers are exact rationals, so     *)
(* every equality below is an equality of the mathematical values the      *)
(* floating point code approximates.                                       *)
(***************************************************************************)
EXTENDS Integers, Sequences, FiniteSets, TLC

VARIABLES op, args, ret

vars == <<op, args, ret>>

(***************************************************************************)
(* Bounds of the model.                                                    *)
(***************************************************************************)
\* widths x_size of the images that are sampled, 2..MaxXSize
MaxXSize == 6
\* integer parts of the sample coordinates range over -MaxCoord..MaxCoord
MaxCoord == 8
\* widths and heights of the images that rotate_equirect_image shifts
MaxShiftW == 4
\* the log-coordinate real part is n/2 for n in -MaxRe..MaxRe
MaxRe == 12
\* stereographic coordinates of the sphere points are s/u, s in -MaxStereo..MaxStereo
MaxStereo == 3

(***************************************************************************)
(* Exact rational numbers <<n, d>>, d > 0, in lowest terms: the values of  *)
(* Python's floats.                                                        *)
(***************************************************************************)
Abs(n) == IF n < 0 THEN -n ELSE n

RECURSIVE GCD(_, _)
GCD(a, b) == IF b = 0 THEN a ELSE GCD(b, a % b)

Q(n, d) ==
  LET s == IF d < 0 THEN -1 ELSE 1
      g == GCD(Abs(n), Abs(d))
  IN  <<(s * n) \div g, (s * d) \div g>>

QInt(n) == <<n, 1>>
QAdd(a, b) ==
  LET g == GCD(a[2], b[2])
  IN  Q(a[1] * (b[2] \div g) + b[1] * (a[2] \div g), (a[2] \div g) * b[2])
QNeg(a) == <<-a[1], a[2]>>
QSub(a, b) == QAdd(a, QNeg(b))
QMul(a, b) ==
  LET g == GCD(Abs(a[1]), b[2])
      h == GCD(Abs(b[1]), a[2])
  IN  Q((a[1] \div g) * (b[1] \div h), (a[2] \div h) * (b[2] \div g))
\* a / b for b # 0
QDiv(a, b) == QMul(a, Q(b[2], b[1]))
QLt(a, b) == a[1] * b[2] < b[1] * a[2]
QAbs(a) == <<Abs(a[1]), a[2]>>
\* math.floor
QFloor(a) == a[1] \div a[2]
\* Python's float %, for a positive modulus: the result lies in [0, m)
QMod(a, m) == QSub(a, QMul(m, QInt(QFloor(QDiv(a, m)))))
\* round() of a non-negative value: halves go up
QRound(a) == (2 * a[1] + a[2]) \div (2 * a[2])

(***************************************************************************)
(* clamp, get_pixel_colour, get_interpolated_pixel_colour                  *)
(***************************************************************************)
\* the failure of an operation: the exception it ends in
Err == <<>>

clamp_nowrap(pt, x_size) ==
  LET y_size == x_size \div 2
  IN  <<pt[1],
        IF pt[2] < 0 THEN 0
        ELSE IF pt[2] > y_size - 1 THEN y_size - 1
        ELSE pt[2]>>

clamp_nopin(pt, x_size) == <<pt[1] % x_size, pt[2]>>

clamp(pt, x_size) ==
  LET y_size == x_size \div 2
  IN  <<pt[1] % x_size,
        IF pt[2] < 0 THEN 0
        ELSE IF pt[2] > y_size - 1 THEN y_size - 1
        ELSE pt[2]>>

\* the source image: an x_size by x_size/2 grid, one colour value per cell
s_im(x_size) ==
  [c \in (0 .. x_size - 1) \X (0 .. (x_size \div 2) - 1) |-> (3 * c[1] + 5 * c[2]) % 7]

\* the cell get_pixel_colour reads
fetch_cell(pt, x_size) == clamp(pt, x_size)

\* Err when the cell read lies outside the image (IndexError)
get_pixel_colour(pt, im, x_size) ==
  LET c == fetch_cell(pt, x_size)
  IN  IF c \in DOMAIN im THEN <<im[c]>> ELSE Err

\* the four neighbours, in the order the code reads them
neighbours(pt) ==
  LET x == QFloor(pt[1])
      y == QFloor(pt[2])
  IN  << <<x, y>>, <<x, y + 1>>, <<x + 1, y>>, <<x + 1, y + 1>> >>

get_interpolated_pixel_colour(pt, im, x_size) ==
  LET x == QFloor(pt[1])
      y == QFloor(pt[2])
      f == QSub(pt[1], QInt(x))
      g == QSub(pt[2], QInt(y))
      nb == neighbours(pt)
      col == [i \in 1 .. 4 |-> get_pixel_colour(nb[i], im, x_size)]
      one == QInt(1)
      v(i) == QInt(col[i][1])
      out_colour ==
        QAdd(QMul(QSub(one, f), QAdd(QMul(QSub(one, g), v(1)), QMul(g, v(2)))),
             QMul(f, QAdd(QMul(QSub(one, g), v(3)), QMul(g, v(4)))))
  IN  IF \E i \in 1 .. 4 : col[i] = Err THEN Err ELSE <<QRound(out_colour)>>

(***************************************************************************)
(* rotate_equirect_image.  An image is its size and its pixels; a new      *)
(* image is black (0).                                                     *)
(***************************************************************************)
NewImage(w, h) ==
  [size |-> <<w, h>>, px |-> [c \in (0 .. w - 1) \X (0 .. h - 1) |-> 0]]

\* Image.crop(box), box = (left, upper, right, lower) inside the image
Crop(img, box) ==
  [size |-> <<box[3] - box[1], box[4] - box[2]>>,
   px |-> [c \in (0 .. box[3] - box[1] - 1) \X (0 .. box[4] - box[2] - 1) |->
             img.px[<<box[1] + c[1], box[2] + c[2]>>]]]

\* Image.paste(src, (x0, y0)): src is written at the offset, clipped to img
Paste(img, src, at) ==
  [size |-> img.size,
   px |-> [c \in DOMAIN img.px |->
             IF <<c[1] - at[1], c[2] - at[2]>> \in DOMAIN src.px
             THEN src.px[<<c[1] - at[1], c[2] - at[2]>>]
             ELSE img.px[c]]]

rotate_equirect_image_sameboxes(s_img, from_x, to_x) ==
  LET dist == Abs(from_x - to_x)
      W == s_img.size[1]
      H == s_img.size[2]
      l_box == <<0, 0, dist, H>>
      r_box == <<dist, 0, W, H>>
      right == Crop(s_img, r_box)
      left == Crop(s_img, l_box)
      new_im == NewImage(W, H)
  IN  Paste(Paste(new_im, right, <<0, 0>>), left, <<right.size[1], 0>>)

rotate_equirect_image(s_img, from_x, to_x) ==
  LET dist == Abs(from_x - to_x)
      W == s_img.size[1]
      H == s_img.size[2]
      l_box == IF from_x < to_x THEN <<0, 0, W - dist, H>> ELSE <<0, 0, dist, H>>
      r_box == IF from_x < to_x THEN <<W - dist, 0, W, H>> ELSE <<dist, 0, W, H>>
      right == Crop(s_img, r_box)
      left == Crop(s_img, l_box)
      new_im == NewImage(W, H)
  IN  Paste(Paste(new_im, right, <<0, 0>>), left, <<right.size[1], 0>>)

\* an input image whose pixels are all different and none black
LabelledImage(w, h) ==
  [size |-> <<w, h>>, px |-> [c \in (0 .. w - 1) \X (0 .. h - 1) |-> 1 + c[1] + w * c[2]]]

(***************************************************************************)
(* generate_image: the zoom level of a pixel and the adjustment of the     *)
(* real part of its log coordinate (lines 241-261), and the image the      *)
(* pixel is sampled from (lines 270-273).  re is the real part that        *)
(* cmath.log returned, logk is log(zoom_factor) > 0.                       *)
(***************************************************************************)
shifted_real(re, logk, zoom_loop_value) == QAdd(re, QMul(logk, zoom_loop_value))

recurse_level(re, zoom_cutoff, logk, zoom_loop_value) ==
  QFloor(QDiv(QAdd(shifted_real(re, logk, zoom_loop_value), zoom_cutoff), logk))

\* the multiple of log(zoom_factor) that the branch for a level subtracts
ladder_steps_flat(level) == 0
ladder_steps_shifted(level) == -level

ladder_steps(level) ==
  IF level = -1 THEN 0
  ELSE IF level = -2 THEN 1
  ELSE IF level = -3 THEN 2
  ELSE 3

adjusted_real(re, zoom_cutoff, logk, zoom_loop_value) ==
  LET r == shifted_real(re, logk, zoom_loop_value)
      level == recurse_level(re, zoom_cutoff, logk, zoom_loop_value)
  IN  IF level >= 0 THEN r
      ELSE QSub(QSub(QMod(QAdd(r, zoom_cutoff), logk), zoom_cutoff),
                QMul(logk, QInt(ladder_steps(level))))

sampled_image(re, zoom_cutoff, logk, zoom_loop_value) ==
  IF recurse_level(re, zoom_cutoff, logk, zoom_loop_value) >= 0 THEN "A" ELSE "B"

(***************************************************************************)
(* Complex numbers <<re, im>> of rationals: the values of Python's complex *)
(***************************************************************************)
\* the square root of a non-negative integer, rounded down
RECURSIVE ISqrtIn(_, _, _)
ISqrtIn(n, lo, hi) ==
  IF lo >= hi THEN lo
  ELSE LET mid == (lo + hi + 1) \div 2
       IN  IF mid * mid <= n THEN ISqrtIn(n, mid, hi) ELSE ISqrtIn(n, lo, mid - 1)

\* the bound keeps mid * mid within TLC's integers
ISqrt(n) == ISqrtIn(n, 0, IF n < 46340 THEN n ELSE 46340)

IsSquare(n) == ISqrt(n) * ISqrt(n) = n

\* the values whose square root is a rational number
QIsSquare(a) == a[1] >= 0 /\ IsSquare(a[1]) /\ IsSquare(a[2])
\* math.sqrt, where the root is rational
QSqrt(a) == <<ISqrt(a[1]), ISqrt(a[2])>>

Zero == QInt(0)
Cx(re, im) == <<re, im>>
CInt(n) == <<QInt(n), Zero>>
CZero == CInt(0)
CAdd(a, b) == <<QAdd(a[1], b[1]), QAdd(a[2], b[2])>>
CNeg(a) == <<QNeg(a[1]), QNeg(a[2])>>
CSub(a, b) == CAdd(a, CNeg(b))
CMul(a, b) ==
  <<QSub(QMul(a[1], b[1]), QMul(a[2], b[2])), QAdd(QMul(a[1], b[2]), QMul(a[2], b[1]))>>
conjugate(a) == <<a[1], QNeg(a[2])>>
\* the square of abs(a)
CNormSq(a) == QAdd(QMul(a[1], a[1]), QMul(a[2], a[2]))
\* a / b; Err when b is zero (ZeroDivisionError)
CDiv(a, b) ==
  IF b = CZero THEN Err
  ELSE LET n == CMul(a, conjugate(b))
           d == CNormSq(b)
       IN  <<QDiv(n[1], d), QDiv(n[2], d)>>

(***************************************************************************)
(* The primitives of vectors_and_matrices.  A vector is a tuple of         *)
(* numbers, a matrix <<row 1, row 2>>.                                     *)
(***************************************************************************)
matrix2_det(M) == CSub(CMul(M[1][1], M[2][2]), CMul(M[1][2], M[2][1]))

\* Err when M is singular: the division by its determinant fails
matrix2_inv(M) ==
  LET inv_det == CDiv(CInt(1), matrix2_det(M))
  IN  IF M = Err \/ inv_det = Err THEN Err
      ELSE << <<CMul(inv_det, M[2][2]), CNeg(CMul(inv_det, M[1][2]))>>,
              <<CNeg(CMul(inv_det, M[2][1])), CMul(inv_det, M[1][1])>> >>

matrix_mult(A, B) ==
  IF A = Err \/ B = Err THEN Err
  ELSE [i \in 1 .. 2 |-> [j \in 1 .. 2 |->
          CAdd(CMul(A[i][1], B[1][j]), CMul(A[i][2], B[2][j]))]]

matrix_mult_vector(M, v) ==
  IF M = Err THEN Err
  ELSE [i \in 1 .. 2 |-> CAdd(CMul(M[i][1], v[1]), CMul(M[i][2], v[2]))]

dot(p, q) == QAdd(QAdd(QMul(p[1], q[1]), QMul(p[2], q[2])), QMul(p[3], q[3]))

cross(p, q) ==
  <<QSub(QMul(p[2], q[3]), QMul(p[3], q[2])),
    QSub(QMul(p[3], q[1]), QMul(p[1], q[3])),
    QSub(QMul(p[1], q[2]), QMul(p[2], q[1]))>>

\* Err for the zero vector: the division by its norm fails
normalised(v) ==
  LET n == QSqrt(dot(v, v))
  IN  IF n = Zero THEN Err ELSE [i \in 1 .. 3 |-> QDiv(v[i], n)]

vneg(v) == [i \in 1 .. 3 |-> QNeg(v[i])]

(***************************************************************************)
(* CP1_from_sphere, sphere_from_CP1                                        *)
(***************************************************************************)
CP1_from_sphere(point) ==
  IF QLt(point[3], Zero)
  THEN <<Cx(point[1], point[2]), Cx(QSub(QInt(1), point[3]), Zero)>>
  ELSE <<Cx(QAdd(QInt(1), point[3]), Zero), Cx(point[1], QNeg(point[2]))>>

\* the component sphere_from_CP1 divides by: 2 is z2, 1 is z1.  abs(z2) >
\* abs(z1) is decided on the squares of the two magnitudes.
divisor_index(point) == IF QLt(CNormSq(point[1]), CNormSq(point[2])) THEN 2 ELSE 1

sphere_from_CP1_noconj(point) ==
  LET z == CDiv(point[1], point[2])
      denom == QAdd(QInt(1), CNormSq(z))
  IN  IF z = Err THEN Err
      ELSE <<QDiv(QMul(QInt(2), z[1]), denom), QDiv(QMul(QInt(2), z[2]), denom),
             QDiv(QSub(denom, QInt(2)), denom)>>

sphere_from_CP1(point) ==
  IF divisor_index(point) = 2
  THEN LET z == CDiv(point[1], point[2])
           denom == QAdd(QInt(1), CNormSq(z))
       IN  IF z = Err THEN Err
           ELSE <<QDiv(QMul(QInt(2), z[1]), denom), QDiv(QMul(QInt(2), z[2]), denom),
                  QDiv(QSub(denom, QInt(2)), denom)>>
  ELSE LET q == CDiv(point[2], point[1])
           z == conjugate(q)
           denom == QAdd(QInt(1), CNormSq(z))
       IN  IF q = Err THEN Err
           ELSE <<QDiv(QMul(QInt(2), z[1]), denom), QDiv(QMul(QInt(2), z[2]), denom),
                  QDiv(QSub(QInt(2), denom), denom)>>

(***************************************************************************)
(* Functions generating SL(2,C) matrices                                   *)
(***************************************************************************)
inf_zero_one_to_triple_unscaled(p, q, r) == << <<p[1], q[1]>>, <<p[2], q[2]>> >>

inf_zero_one_to_triple(p, q, r) ==
  LET M == << <<p[1], q[1]>>, <<p[2], q[2]>> >>
      Minv == matrix2_inv(M)
      ml == matrix_mult_vector(Minv, r)
      mu == ml[1]
      lam == ml[2]
  IN  IF Minv = Err THEN Err
      ELSE << <<CMul(mu, p[1]), CMul(lam, q[1])>>, <<CMul(mu, p[2]), CMul(lam, q[2])>> >>

two_triples_to_SL(a1, b1, c1, a2, b2, c2) ==
  matrix_mult(inf_zero_one_to_triple(a2, b2, c2),
              matrix2_inv(inf_zero_one_to_triple(a1, b1, c1)))

\* the tolerances of the special cases
Tol == Q(1, 10000)
NearOne == Q(9999, 10000)
e_x == <<QInt(1), Zero, Zero>>
e_y == <<Zero, QInt(1), Zero>>

is_antipodal(p, q) == QLt(QAbs(QAdd(dot(p, q), QInt(1))), Tol)
is_same(p, q) == QLt(QAbs(QSub(dot(p, q), QInt(1))), Tol)

get_vector_perp_to_p_and_q(p, q) ==
  IF is_antipodal(p, q)
  THEN IF QLt(NearOne, QAbs(dot(p, e_x))) THEN e_y ELSE normalised(cross(p, e_x))
  ELSE normalised(cross(p, q))

Identity == << <<CInt(1), CZero>>, <<CZero, CInt(1)>> >>

rotate_sphere_points_p_to_q(p, q) ==
  LET CP1p == CP1_from_sphere(p)
      CP1q == CP1_from_sphere(q)
  IN  IF is_same(p, q) THEN Identity
      ELSE LET r == get_vector_perp_to_p_and_q(p, q)
           IN  IF r = Err THEN Err
               ELSE two_triples_to_SL(CP1p, CP1_from_sphere(r), CP1_from_sphere(vneg(r)),
                                      CP1q, CP1_from_sphere(r), CP1_from_sphere(vneg(r)))

\* projective equality of two CP1 points: u1 * v2 = u2 * v1
ProjEq(u, v) == CMul(u[1], v[2]) = CMul(u[2], v[1])

(***************************************************************************)
(* The state machine: one step per call.                                   *)
(***************************************************************************)
Halves(lo, hi) == {Q(n, 2) : n \in lo .. hi}

\* the CP1 points inf_zero_one_to_triple is called on: infinity, zero, one,
\* i, 1 + i, and second representatives 2i * infinity and -zero
CP1Pts ==
  { <<CInt(1), CZero>>, <<CZero, CInt(1)>>, <<CInt(1), CInt(1)>>,
    <<Cx(Zero, QInt(1)), CInt(1)>>, <<Cx(QInt(1), QInt(1)), CInt(1)>>,
    <<Cx(Zero, QInt(2)), CZero>>, <<CZero, CInt(-1)>> }

\* the points of the triple two_triples_to_SL maps from
SrcPts ==
  { <<CInt(1), CZero>>, <<CZero, CInt(1)>>, <<CInt(1), CInt(1)>>,
    <<Cx(Zero, QInt(1)), CInt(1)>>, <<Cx(Zero, QInt(2)), CZero>> }

\* the points of the triple two_triples_to_SL maps to
DstPts ==
  { <<Cx(QInt(1), QInt(1)), CInt(1)>>, <<CZero, CInt(-1)>>, <<CInt(1), CInt(1)>>,
    <<CInt(1), Cx(Zero, QInt(1))>> }

\* the point of the unit sphere with stereographic coordinates s/u, t/u
\* seen from the north pole, and its mirror image in the equator
StereoPt(s, t, u, sign) ==
  LET n == s * s + t * t + u * u
  IN  <<Q(2 * s * u, n), Q(2 * t * u, n), Q(sign * (s * s + t * t - u * u), n)>>

StereoPts(K) ==
  {StereoPt(s, t, u, sign) : s \in -K .. K, t \in -K .. K, u \in 1 .. 2, sign \in {-1, 1}}

\* unit sphere points for the rotations: the six axis points, points of the
\* great circles y = 0 and z = 0, and two pairs of points less than 0.0141
\* apart, (24,0,143)/145 with (13,0,84)/85 and their antipodes
RotPts ==
  StereoPts(1) \cup
  { StereoPt(12, 0, 1, 1), StereoPt(13, 0, 1, 1), StereoPt(12, 0, 1, -1),
    vneg(StereoPt(12, 0, 1, 1)), vneg(StereoPt(13, 0, 1, 1)),
    <<Q(3, 5), Q(4, 5), Zero>>, <<Q(-3, 5), Q(-4, 5), Zero>> }

\* the vector that get_vector_perp_to_p_and_q normalises
perp_before_normalising(p, q) ==
  IF is_antipodal(p, q)
  THEN IF QLt(NearOne, QAbs(dot(p, e_x))) THEN e_y ELSE cross(p, e_x)
  ELSE cross(p, q)

\* the pairs whose perpendicular has a rational length, which the exact
\* arithmetic of the model can normalise
ExactPair(p, q) == is_same(p, q) \/ QIsSquare(dot(perp_before_normalising(p, q), perp_before_normalising(p, q)))

Init ==
  /\ op = "start"
  /\ args = <<>>
  /\ ret = <<>>

Clamp ==
  /\ op = "start"
  /\ \E x_size \in 2 .. MaxXSize, x \in -MaxCoord .. MaxCoord, y \in -MaxCoord .. MaxCoord :
       /\ op' = "clamp"
       /\ args' = <<x, y, x_size>>
       /\ ret' = clamp(<<x, y>>, x_size)

GetInterpolatedPixelColour ==
  /\ op = "start"
  /\ \E x_size \in {w \in 2 .. MaxXSize : w % 2 = 0},
        px \in Halves(-2 * MaxCoord, 2 * MaxCoord),
        py \in Halves(-2 * MaxCoord, 2 * MaxCoord) :
       /\ op' = "get_interpolated_pixel_colour"
       /\ args' = <<px, py, x_size>>
       /\ ret' = <<get_interpolated_pixel_colour(<<px, py>>, s_im(x_size), x_size),
                   [i \in 1 .. 4 |-> fetch_cell(neighbours(<<px, py>>)[i], x_size)]>>

RotateEquirectImage ==
  /\ op = "start"
  /\ \E W \in 1 .. MaxShiftW, H \in 1 .. MaxShiftW,
        from_x \in 0 .. 2 * MaxShiftW, to_x \in 0 .. 2 * MaxShiftW :
       /\ Abs(from_x - to_x) <= W
       /\ op' = "rotate_equirect_image"
       /\ args' = <<W, H, from_x, to_x>>
       /\ ret' = rotate_equirect_image(LabelledImage(W, H), from_x, to_x)

GenerateImagePixel ==
  /\ op = "start"
  /\ \E re \in Halves(-MaxRe, MaxRe), zoom_cutoff \in Halves(-1, 2), logk \in Halves(1, 4),
        zoom_loop_value \in Halves(0, 2) :
       /\ op' = "generate_image"
       /\ args' = <<re, zoom_cutoff, logk, zoom_loop_value>>
       /\ ret' = <<recurse_level(re, zoom_cutoff, logk, zoom_loop_value),
                   adjusted_real(re, zoom_cutoff, logk, zoom_loop_value),
                   sampled_image(re, zoom_cutoff, logk, zoom_loop_value)>>

InfZeroOneToTriple ==
  /\ op = "start"
  /\ \E p \in CP1Pts, q \in CP1Pts, r \in CP1Pts :
       /\ op' = "inf_zero_one_to_triple"
       /\ args' = <<p, q, r>>
       /\ ret' = inf_zero_one_to_triple(p, q, r)

TwoTriplesToSL ==
  /\ op = "start"
  /\ \E a1 \in SrcPts, b1 \in SrcPts, c1 \in SrcPts, a2 \in DstPts, b2 \in DstPts, c2 \in DstPts :
       /\ op' = "two_triples_to_SL"
       /\ args' = <<a1, b1, c1, a2, b2, c2>>
       /\ ret' = two_triples_to_SL(a1, b1, c1, a2, b2, c2)

RotateSpherePointsPToQ ==
  /\ op = "start"
  /\ \E p \in RotPts, q \in RotPts :
       /\ ExactPair(p, q)
       /\ op' = "rotate_sphere_points_p_to_q"
       /\ args' = <<p, q>>
       /\ ret' = rotate_sphere_points_p_to_q(p, q)

SphereRoundTrip ==
  /\ op = "start"
  /\ \E p \in StereoPts(MaxStereo) :
       /\ op' = "sphere_from_CP1"
       /\ args' = <<p>>
       /\ ret' = <<CP1_from_sphere(p), sphere_from_CP1(CP1_from_sphere(p))>>

Next ==
  \/ Clamp
  \/ GetInterpolatedPixelColour
  \/ RotateEquirectImage
  \/ GenerateImagePixel
  \/ InfZeroOneToTriple
  \/ TwoTriplesToSL
  \/ RotateSpherePointsPToQ
  \/ SphereRoundTrip

Spec == Init /\ [][Next]_vars

\* the functions grouped by what they work on
NextSample == Clamp \/ GetInterpolatedPixelColour
SpecSample == Init /\ [][NextSample]_vars

NextShift == RotateEquirectImage
SpecShift == Init /\ [][NextShift]_vars

NextZoom == GenerateImagePixel
SpecZoom == Init /\ [][NextZoom]_vars

NextMatrix == InfZeroOneToTriple \/ TwoTriplesToSL
SpecMatrix == Init /\ [][NextMatrix]_vars

NextSphere == RotateSpherePointsPToQ \/ SphereRoundTrip
SpecSphere == Init /\ [][NextSphere]_vars

(***************************************************************************)
(* The claims.                                                             *)
(***************************************************************************)
PairwiseDistinct(a, b, c) == ~ProjEq(a, b) /\ ~ProjEq(a, c) /\ ~ProjEq(b, c)

\* M * u is a CP1 point and is projectively equal to v
Sends(M, u, v) ==
  /\ M # Err
  /\ matrix_mult_vector(M, u) # <<CZero, CZero>>
  /\ ProjEq(matrix_mult_vector(M, u), v)

\* C1: for two triples of CP1 points, each pairwise projectively distinct,
\* the matrix of two_triples_to_SL sends a1 to a2, b1 to b2 and c1 to c2,
\* up to projective equality.
Thm_C1 ==
  (op = "two_triples_to_SL"
     /\ PairwiseDistinct(args[1], args[2], args[3])
     /\ PairwiseDistinct(args[4], args[5], args[6]))
  => /\ Sends(ret, args[1], args[4])
     /\ Sends(ret, args[2], args[5])
     /\ Sends(ret, args[3], args[6])

Wit_C1 ==
  /\ op = "two_triples_to_SL"
  /\ PairwiseDistinct(args[1], args[2], args[3])
  /\ PairwiseDistinct(args[4], args[5], args[6])
  /\ ret # Err
  /\ ~ProjEq(args[1], args[4]) /\ ~ProjEq(args[2], args[5]) /\ ~ProjEq(args[3], args[6])
  /\ args[1] = <<Cx(Zero, QInt(1)), CInt(1)>>

\* C2: for unit sphere points p and q, rotate_sphere_points_p_to_q(p, q)
\* sends CP1_from_sphere(p) to a point projectively equal to
\* CP1_from_sphere(q), and is the identity matrix when p = q.
Cex_C2 ==
  op = "rotate_sphere_points_p_to_q"
  => /\ Sends(ret, CP1_from_sphere(args[1]), CP1_from_sphere(args[2]))
     /\ (args[1] = args[2] => ret = Identity)

\* C3: inf_zero_one_to_triple(p, q, r) ends in an error whenever two of its
\* three points are projectively equal; it returns no matrix then.
Cex_C3 ==
  (op = "inf_zero_one_to_triple"
     /\ (ProjEq(args[1], args[2]) \/ ProjEq(args[1], args[3]) \/ ProjEq(args[2], args[3])))
  => ret = Err

\* C4: for a W x H image and |fromX - toX| <= W, the output of
\* rotate_equirect_image is a W x H image whose column
\* (x + toX - fromX) mod W is column x of the input, for every column x.
Thm_C4 ==
  op = "rotate_equirect_image"
  => LET W == args[1]
         H == args[2]
         from_x == args[3]
         to_x == args[4]
     IN  /\ ret.size = <<W, H>>
         /\ DOMAIN ret.px = (0 .. W - 1) \X (0 .. H - 1)
         /\ \A x \in 0 .. W - 1, y \in 0 .. H - 1 :
              ret.px[<<(x + to_x - from_x) % W, y>>] = LabelledImage(W, H).px[<<x, y>>]

Wit_C4 ==
  /\ op = "rotate_equirect_image"
  /\ args[1] = 4
  /\ args[3] = 3 /\ args[4] = 0
  /\ ret.px[<<1, 0>>] = LabelledImage(4, args[2]).px[<<0, 0>>]

\* C5: clamp returns x mod x_size, a value of 0 .. x_size - 1 that is the
\* same for x and x + x_size, also for negative x, and returns y pinned into
\* [0, y_size - 1]: 0 below, y_size - 1 above, y itself inside.
Thm_C5 ==
  op = "clamp"
  => LET x == args[1]
         y == args[2]
         x_size == args[3]
         y_size == x_size \div 2
     IN  /\ ret[1] \in 0 .. x_size - 1
         /\ \E k \in -(MaxCoord + 1) .. (MaxCoord + 1) : x = k * x_size + ret[1]
         /\ clamp(<<x + x_size, y>>, x_size) = ret
         /\ ret[2] \in 0 .. y_size - 1
         /\ (y < 0 => ret[2] = 0)
         /\ (y > y_size - 1 => ret[2] = y_size - 1)
         /\ (y \in 0 .. y_size - 1 => ret[2] = y)

Wit_C5 ==
  /\ op = "clamp"
  /\ args[1] < 0
  /\ args[2] > (args[3] \div 2) - 1
  /\ ret[1] > 0

\* C6: for every point p of the unit sphere, sphere_from_CP1 of
\* CP1_from_sphere(p) is p, and the component the inverse map divides by is
\* not zero and has the larger magnitude of the two.
Thm_C6 ==
  op = "sphere_from_CP1"
  => LET cp == ret[1]
         k == divisor_index(cp)
     IN  /\ ret[2] = args[1]
         /\ cp[k] # CZero
         /\ ~QLt(CNormSq(cp[k]), CNormSq(cp[3 - k]))

Wit_C6 ==
  /\ op = "sphere_from_CP1"
  /\ QLt(args[1][3], Zero)
  /\ args[1][2] # Zero
  /\ ret[2] = args[1]

\* C7 as stated: for level -1, -2 or -3 the adjusted real part lies in
\* [-c + level * log(k), log(k) - c + level * log(k)).
Cex_C7 ==
  (op = "generate_image" /\ ret[1] \in {-1, -2, -3})
  => LET c == args[2]
         logk == args[3]
         lo == QAdd(QNeg(c), QMul(logk, QInt(ret[1])))
     IN  ~QLt(ret[2], lo) /\ QLt(ret[2], QAdd(lo, logk))

\* C7 as amended: for level -1, -2 or -3 the adjusted real part lies in the
\* fundamental interval shifted by (level + 1) * log(k), that is in
\* [-c + (level + 1) * log(k), log(k) - c + (level + 1) * log(k)).
Thm_C7 ==
  (op = "generate_image" /\ ret[1] \in {-1, -2, -3})
  => LET c == args[2]
         logk == args[3]
         lo == QAdd(QNeg(c), QMul(logk, QInt(ret[1] + 1)))
     IN  ~QLt(ret[2], lo) /\ QLt(ret[2], QAdd(lo, logk))

Wit_C7 ==
  /\ op = "generate_image"
  /\ ret[1] = -2
  /\ args[2] # Zero
  /\ args[4] # Zero

\* C8: a pixel of level below -3 has its real part adjusted by the rule the
\* cases for -1, -2 and -3 instantiate, ((Re(w) + c) mod log(k)) - c -
\* (-level - 1) * log(k), for every level <= -4, and is sampled from image B.
Cex_C8 ==
  (op = "generate_image" /\ ret[1] < -3)
  => LET c == args[2]
         logk == args[3]
         r == shifted_real(args[1], logk, args[4])
     IN  /\ ret[2] = QSub(QSub(QMod(QAdd(r, c), logk), c), QMul(logk, QInt(-ret[1] - 1)))
         /\ ret[3] = "B"

\* C9: every one of the four neighbour fetches of
\* get_interpolated_pixel_colour reads a cell of the W x W/2 image, the
\* x + 1 neighbour of column W - 1 is column 0, the y + 1 neighbour of row
\* W/2 - 1 is row W/2 - 1, and no error occurs.
Thm_C9 ==
  op = "get_interpolated_pixel_colour"
  => LET W == args[3]
         H == W \div 2
         cells == ret[2]
     IN  /\ ret[1] # Err
         /\ \A i \in 1 .. 4 : cells[i][1] \in 0 .. W - 1 /\ cells[i][2] \in 0 .. H - 1
         /\ (cells[1][1] = W - 1 => cells[3][1] = 0 /\ cells[4][1] = 0)
         /\ (cells[1][2] = H - 1 => cells[2][2] = H - 1 /\ cells[4][2] = H - 1)

Wit_C9 ==
  /\ op = "get_interpolated_pixel_colour"
  /\ QLt(args[1], Zero)
  /\ ~QLt(args[2], QInt(args[3] \div 2))
  /\ ret[2][1][1] = args[3] - 1
  /\ ret[2][3][1] = 0
  /\ ret[1] # Err

\* C10: for level -1, -2 or -3 the adjusted real part is Re(w) + log(k), and
\* for level >= 0 it is Re(w), where Re(w) is the real part the level is
\* computed from.
Thm_C10 ==
  op = "generate_image"
  => LET logk == args[3]
         r == shifted_real(args[1], logk, args[4])
     IN  /\ (ret[1] \in {-1, -2, -3} => ret[2] = QAdd(r, logk))
         /\ (ret[1] >= 0 => ret[2] = r)

Wit_C10 ==
  /\ op = "generate_image"
  /\ ret[1] = -3
  /\ ret[2] = QAdd(shifted_real(args[1], args[3], args[4]), args[3])

====
